---- MODULE Spec2Model ----
(***************************************************************************)
(* Model of back_new/stats.py: the Telegram export ingestion pipeline      *)
(* (find_exports, load_chat_records, parse_message, canonical_sender,      *)
(* detect_media_type) and the aggregation in compute_stats, and of          *)
(* back_new/stats_api.py: the upload endpoint, the cached stats.json and   *)
(* the stats read endpoints.                                               *)
(*                                                                         *)
(* Text is modelled as a sequence of characters, a character as a string   *)
(* naming it ("a", "A", " ", ...; "U0250" is the letter U+0250, whose      *)
(* upper case U+2C6F is named "U2C6F").  Python's None is the one-element  *)
(* sequence None, which holds no character of any alphabet.                *)
(***************************************************************************)
EXTENDS Integers, Sequences, FiniteSets, TLC

VARIABLES
    cpc,            \* canonical_sender harness: "call" -> "once" -> "twice"
    cname,          \* the display name handed to canonical_sender
    cout1,          \* canonical_sender(cname)
    cout2,          \* canonical_sender(cout1), when cout1 is not None
    ppc,            \* parse_message harness: "call" -> "returned"
    pmsg,           \* the node handed to parse_message
    plast,          \* <<last_sender, last_sender_canonical>> handed to it
    pret,           \* what it returned: <<parsed, next_sender, next_canonical>>
    uploadDir,      \* UPLOAD_DIR: file name -> the div.message nodes of the file
    dataDir,        \* DATA_DIR: file name -> the div.message nodes of the file
    pc,             \* position in compute_stats / load_chat_records
    files,          \* load_chat_records: the export files, in processing order
    source_dir,     \* load_chat_records: "upload" or "data", the directory the files are in
    fi,             \* index in files of the file being read
    ni,             \* index of the next node of that file
    records,        \* load_chat_records: records
    last_sender,            \* load_chat_records: last_sender
    last_sender_canonical,  \* load_chat_records: last_sender_canonical
    trail,          \* one entry per node processed: the node, what it yielded, the continuation before and after
    result,         \* what compute_stats returned or raised
    apc,            \* the request handler waiting for compute_stats: "idle", "upload" or "read"
    request,        \* the request being handled, or the last one handled: its kind and
                    \* the file names it carries or the endpoint it reads
    response,       \* the response to it
    saved_files,    \* upload_chat_export: saved_files
    statsJson,      \* STATS_JSON: <<>> when the file does not exist, else <<payload>>
    statsSource,    \* the content of UPLOAD_DIR when STATS_JSON was last written
    uploads         \* the number of uploads that were saved

canonVars == <<cpc, cname, cout1, cout2>>

parseVars == <<ppc, pmsg, plast, pret>>

loadVars ==
    <<uploadDir, dataDir, pc, files, source_dir, fi, ni, records, last_sender,
      last_sender_canonical, trail, result>>

apiVars == <<apc, request, response, saved_files, statsJson, statsSource, uploads>>

vars == <<canonVars, parseVars, loadVars, apiVars>>

None == <<"<None>">>

Truthy(s) == s # None /\ s # <<>>

-----------------------------------------------------------------------------
(* Characters and Python's str methods on them.                            *)

LowerLetters ==
    <<"a","b","c","d","e","f","g","h","i","j","k","l","m",
      "n","o","p","q","r","s","t","u","v","w","x","y","z">>

UpperLetters ==
    <<"A","B","C","D","E","F","G","H","I","J","K","L","M",
      "N","O","P","Q","R","S","T","U","V","W","X","Y","Z">>

Range(s) == {s[i] : i \in DOMAIN s}

IndexOf(s, c) == CHOOSE i \in DOMAIN s : s[i] = c

\* str.upper and str.lower of the cased characters of the model
ToUpper ==
    [c \in Range(LowerLetters) |-> UpperLetters[IndexOf(LowerLetters, c)]]
    @@ ("U0250" :> "U2C6F")

ToLower ==
    [c \in Range(UpperLetters) |-> LowerLetters[IndexOf(UpperLetters, c)]]
    @@ ("U2C6F" :> "U0250")

CasedChars == DOMAIN ToUpper \cup DOMAIN ToLower

IsCased(c) == c \in CasedChars

UpperChar(c) == IF c \in DOMAIN ToUpper THEN ToUpper[c] ELSE c

LowerChar(c) == IF c \in DOMAIN ToLower THEN ToLower[c] ELSE c

\* str.casefold
Casefold(s) == [i \in DOMAIN s |-> LowerChar(s[i])]

\* str.title: a cased character is upper-cased when the character before it
\* is not cased, lower-cased otherwise.
Title(s) ==
    [i \in DOMAIN s |->
        IF i > 1 /\ IsCased(s[i - 1]) THEN LowerChar(s[i]) ELSE UpperChar(s[i])]

\* str.isspace for one character
IsSpace(c) == c = " "

\* The character class of the regular expression in canonical_sender,
\* [A-Za-z U+06AF ?-U+06AF U+00F4 U+06AF U+0651-U+2018 ? U+06AF ? U+2018 ']:
\* the apostrophe and every code point from "?" (U+003F) to U+2018.
AllowedChars ==
    {"'", "?", "_", "U0250"} \cup Range(LowerLetters) \cup Range(UpperLetters)

AllowedChar(c) == c \in AllowedChars

\* re.sub(r"[^...]", " ", name)
Clean(s) == [i \in DOMAIN s |-> IF AllowedChar(s[i]) THEN s[i] ELSE " "]

RECURSIVE SkipSpaces(_)
SkipSpaces(s) ==
    IF s = <<>> THEN <<>>
    ELSE IF IsSpace(Head(s)) THEN SkipSpaces(Tail(s)) ELSE s

RECURSIVE TakeToken(_)
TakeToken(s) ==
    IF s = <<>> \/ IsSpace(Head(s)) THEN <<>>
    ELSE <<Head(s)>> \o TakeToken(Tail(s))

\* str.split(): the whitespace-separated tokens
RECURSIVE Split(_)
Split(s) ==
    LET t == SkipSpaces(s)
    IN  IF t = <<>> THEN <<>>
        ELSE LET tok == TakeToken(t)
             IN  <<tok>> \o Split(SubSeq(t, Len(tok) + 1, Len(t)))

Maksat == <<"M","a","k","s","a","t">>
MaksatB == <<"m","a","k","s","a","t"," ","B",".">>
Maxat == <<"M","a","x","a","t">>
DiasK == <<"D","i","a","s"," ","K",".">>
Dias == <<"D","i","a","s">>
Unknown == <<"U","n","k","n","o","w","n">>

USER_MAP ==
    (<<"d","i","a","s">> :> <<"D","i","a","s">>)
    @@ (<<"a","s","a","n","a","l","i">> :> <<"A","s","a","n","a","l","i">>)
    @@ (<<"a","r","s","e","n","i","y">> :> <<"A","r","s","e","n","i","y">>)
    @@ (<<"m","a","x","a","t">> :> <<"M","a","x","a","t">>)
    @@ (<<"m","a","k","s","a","t">> :> <<"M","a","x","a","t">>)

canonical_sender(name) ==
    IF ~Truthy(name) THEN None
    ELSE LET parts == Split(Clean(name))
         IN  IF parts = <<>> THEN None
             ELSE LET key == Casefold(parts[1])
                  IN  IF key \in DOMAIN USER_MAP THEN USER_MAP[key]
                      ELSE Title(parts[1])

-----------------------------------------------------------------------------
(* A div.message node, as parse_message's selectors see it:                *)
(*   service    "service" is among the node's classes                      *)
(*   title      the title of div.pull_right.date.details: None when the    *)
(*              element or the attribute is missing, else a sequence of    *)
(*              tokens: " " (white space), a day ("D1"), a time ("09:00"), *)
(*              or anything else                                           *)
(*   from_name  the text of div.from_name, None when there is no such      *)
(*              element                                                    *)
(*   text       the number of words of div.text's text (0: no element or   *)
(*              no text)                                                   *)
(*   node_text  the number of words of the whole node's text               *)
(*   media_wrap div.media_wrap: <<>> when there is none, else <<e>>, e the *)
(*              element's div and a descendants in document order, each    *)
(*              the sequence of its classes                                *)
(* A text is kept as the number of its white-space separated words: that   *)
(* is all compute_stats reads of it (the word and emoji tables apart).     *)

NoneStr == "<None>"

MEDIA_TYPE_MAP ==
    ("media_audio_file" :> "audio")
    @@ ("media_file" :> "document")
    @@ ("media_game" :> "game")
    @@ ("media_live_location" :> "live_location")
    @@ ("media_location" :> "location")
    @@ ("media_photo" :> "photo")
    @@ ("media_poll" :> "poll")
    @@ ("media_video" :> "video")
    @@ ("media_voice_message" :> "voice")

\* The classes of the model that start with "media_"
MediaPrefixed == DOMAIN MEDIA_TYPE_MAP \cup {"media_wrap", "media_sticker"}

StartsWithMedia(cls) == cls \in MediaPrefixed

\* re.compile(r"media_") finds a match in the class
MatchesMedia(cls) == StartsWithMedia(cls) \/ cls = "x_media_y"

RECURSIVE FirstMediaClass(_)
FirstMediaClass(classes) ==
    IF classes = <<>> THEN NoneStr
    ELSE IF StartsWithMedia(Head(classes)) /\ Head(classes) # "media_wrap"
         THEN (IF Head(classes) \in DOMAIN MEDIA_TYPE_MAP
               THEN MEDIA_TYPE_MAP[Head(classes)] ELSE "media")
    ELSE FirstMediaClass(Tail(classes))

RECURSIVE FindMediaNode(_)
FindMediaNode(elements) ==
    IF elements = <<>> THEN None
    ELSE IF \E i \in DOMAIN Head(elements) : MatchesMedia(Head(elements)[i])
         THEN Head(elements)
    ELSE FindMediaNode(Tail(elements))

detect_media_type(media_wrap) ==
    IF media_wrap = <<>> THEN NoneStr
    ELSE LET media_node == FindMediaNode(media_wrap[1])
         IN  IF media_node = None THEN NoneStr
             ELSE FirstMediaClass(media_node)

\* str.strip() of a title
RECURSIVE StripRight(_)
StripRight(s) ==
    IF s = <<>> THEN <<>>
    ELSE IF IsSpace(s[Len(s)]) THEN StripRight(SubSeq(s, 1, Len(s) - 1)) ELSE s

Strip(s) == StripRight(SkipSpaces(s))

DateText_NoStrip(msg) == msg.title

\* lines 280-281: date_text
DateText(msg) == IF msg.title # None THEN Strip(msg.title) ELSE None

ContentType_TextFirst(is_service, media_type, text) ==
    IF is_service THEN "service"
    ELSE IF text > 0 THEN "text"
    ELSE IF media_type # NoneStr THEN media_type
    ELSE "unknown"

\* lines 296-305: content_type
ContentType(is_service, media_type, text) ==
    IF is_service THEN "service"
    ELSE IF media_type # NoneStr THEN media_type
    ELSE IF text > 0 THEN "text"
    ELSE "unknown"

\* parse_message returns <<parsed, next_sender, next_sender_canonical>>;
\* parsed is <<>> for None and <<record>> for a record.
parse_message(msg, last_s, last_c) ==
    LET is_service == msg.service
        date_text == DateText(msg)
        sender0 == IF msg.from_name # None THEN msg.from_name ELSE last_s
        sender_canonical ==
            IF Truthy(sender0) THEN canonical_sender(sender0) ELSE last_c
        sender == IF Truthy(sender0) THEN sender0 ELSE Unknown
        media_type == detect_media_type(msg.media_wrap)
        content_type == ContentType(is_service, media_type, msg.text)
        text == IF is_service /\ msg.text = 0 THEN msg.node_text ELSE msg.text
    IN  IF ~Truthy(date_text) THEN <<<<>>, last_s, last_c>>
        ELSE << <<[date |-> date_text,
                   sender |-> sender,
                   sender_canonical |-> sender_canonical,
                   text |-> text,
                   content_type |-> content_type]>>,
                IF is_service THEN last_s ELSE sender,
                IF is_service THEN last_c ELSE sender_canonical >>

-----------------------------------------------------------------------------
(* Export files: find_exports and message_sort_key.  A file name is a      *)
(* sequence of characters.                                                 *)

Digits == <<"0","1","2","3","4","5","6","7","8","9">>

DigitChars == Range(Digits)

IsDigit(c) == c \in DigitChars

DigitValue(c) == IndexOf(Digits, c) - 1

StartsWith(s, prefix) ==
    Len(s) >= Len(prefix) /\ SubSeq(s, 1, Len(prefix)) = prefix

MessagesPrefix == <<"m","e","s","s","a","g","e","s">>

DotHtm == <<".","h","t","m">>

\* fnmatch of "*.htm*" on what follows the first `from` characters
HasDotHtm(name, from) ==
    \E i \in (from + 1)..Len(name) :
        i + 3 <= Len(name) /\ SubSeq(name, i, i + 3) = DotHtm

\* directory.glob("messages*.htm*")
GlobMessages(dir) ==
    {n \in DOMAIN dir : StartsWith(n, MessagesPrefix) /\ HasDotHtm(n, Len(MessagesPrefix))}

\* directory.glob("*.htm*")
GlobMarkup(dir) == {n \in DOMAIN dir : HasDotHtm(n, 0)}

\* Path.stem: the name without its last suffix
Stem(name) ==
    LET dots == {i \in 2..(Len(name) - 1) : name[i] = "."}
    IN  IF dots = {} THEN name
        ELSE SubSeq(name, 1, (CHOOSE i \in dots : \A j \in dots : j <= i) - 1)

\* int() of the digits that \d+ takes from the front of s
RECURSIVE LeadingInt(_, _)
LeadingInt(s, acc) ==
    IF s = <<>> \/ ~IsDigit(Head(s)) THEN acc
    ELSE LeadingInt(Tail(s), 10 * acc + DigitValue(Head(s)))

message_sort_key(path) ==
    LET stem == Stem(path)
    IN  IF StartsWith(stem, MessagesPrefix)
        THEN LeadingInt(SubSeq(stem, Len(MessagesPrefix) + 1, Len(stem)), 0)
        ELSE 0

Orderings(S) ==
    {p \in [1..Cardinality(S) -> S] : \A i, j \in DOMAIN p : i # j => p[i] # p[j]}

\* sorted(candidates, key=message_sort_key): sorted() is stable and glob()
\* yields the directory's entries in no defined order, so files with equal
\* keys may come out in either order.
SortedByKey(S) ==
    {p \in Orderings(S) :
        \A i, j \in DOMAIN p : i < j => message_sort_key(p[i]) <= message_sort_key(p[j])}

\* find_exports: the lists it can return
find_exports(dir) ==
    IF GlobMessages(dir) # {} THEN SortedByKey(GlobMessages(dir))
    ELSE SortedByKey(GlobMarkup(dir))

-----------------------------------------------------------------------------
(* compute_stats: the record table and the aggregations.                   *)

DayNumber == ("D1" :> 1) @@ ("D2" :> 2) @@ ("D3" :> 3) @@ ("D4" :> 4)

MinuteOfDay ==
    ("00:30" :> 30) @@ ("09:00" :> 9 * 60) @@ ("09:30" :> 9 * 60 + 30)
    @@ ("10:00" :> 10 * 60) @@ ("15:00" :> 15 * 60) @@ ("15:01" :> 15 * 60 + 1)
    @@ ("20:00" :> 20 * 60)

NaT == -1

\* pd.to_datetime(date, errors="coerce", dayfirst=True): the minutes since
\* the start of day 0, NaT for a text that is no date and time
to_datetime(date_text) ==
    LET parts == Split(date_text)
    IN  IF /\ Len(parts) = 2
           /\ Len(parts[1]) = 1 /\ parts[1][1] \in DOMAIN DayNumber
           /\ Len(parts[2]) = 1 /\ parts[2][1] \in DOMAIN MinuteOfDay
        THEN DayNumber[parts[1][1]] * 24 * 60 + MinuteOfDay[parts[2][1]]
        ELSE NaT

\* One row of df, with the derived columns (lines 365-377)
TableRow(rec) ==
    LET date == to_datetime(rec.date)
        canonical == canonical_sender(rec.sender)
    IN  [date |-> date,
         sender |-> rec.sender,
         text |-> rec.text,
         content_type |-> rec.content_type,
         word_count |-> rec.text,
         day |-> date \div (24 * 60),
         hour |-> (date % (24 * 60)) \div 60,
         sender_canonical |-> IF canonical = None THEN rec.sender ELSE canonical]

NotNaT_KeepAll(row) == TRUE

NotNaT(row) == row.date # NaT

\* df after dropna(subset=["date"])
BuildTable(recs) == SelectSeq([i \in DOMAIN recs |-> TableRow(recs[i])], NotNaT)

IsUserRow_KeepService(row) == row.sender_canonical # <<>>

IsUserRow(row) == row.content_type # "service" /\ row.sender_canonical # <<>>

\* user_df (lines 379-380)
UserTable(df) == SelectSeq(df, IsUserRow)

\* user_df.sort_values("date"): the default sort is not stable, rows with
\* equal dates may come out in any order
SortValuesByDate(tbl) ==
    {[i \in DOMAIN tbl |-> tbl[p[i]]] : p \in
        {q \in Orderings(DOMAIN tbl) :
            \A i, j \in DOMAIN tbl : i < j => tbl[q[i]].date <= tbl[q[j]].date}}

StarterGap == 6 * 60

IsStarter_AtLeast(sorted, i) == i > 1 /\ sorted[i].date - sorted[i - 1].date >= StarterGap

\* df_sorted[df_sorted["time_diff"] > timedelta(hours=6)]: the first row's
\* diff is NaT, which compares False
IsStarter(sorted, i) == i > 1 /\ sorted[i].date - sorted[i - 1].date > StarterGap

\* conversation_starters["sender_canonical"].value_counts()
StartersPerUser(sorted) ==
    LET starters == {i \in DOMAIN sorted : IsStarter(sorted, i)}
        users == {sorted[i].sender_canonical : i \in starters}
    IN  [u \in users |-> Cardinality({i \in starters : sorted[i].sender_canonical = u})]

\* int((mask).sum()) for the rows of each word-count mask of lines 419-423
WordsAtMost(user_df, hi) ==
    Cardinality({i \in DOMAIN user_df : user_df[i].word_count <= hi})

WordsOver(user_df, lo) ==
    Cardinality({i \in DOMAIN user_df : user_df[i].word_count > lo})

WordsBetween(user_df, lo, hi) ==
    Cardinality({i \in DOMAIN user_df :
        user_df[i].word_count > lo /\ user_df[i].word_count <= hi})

LengthDistribution_Gap(user_df) ==
    << <<"0-10", WordsAtMost(user_df, 10)>>,
       <<"11-50", WordsBetween(user_df, 10, 50)>>,
       <<"51-100", WordsBetween(user_df, 50, 100)>>,
       <<"100-500", WordsBetween(user_df, 100, 499)>>,
       <<"500+", WordsOver(user_df, 500)>> >>

\* length_distribution (lines 418-424)
LengthDistribution(user_df) ==
    << <<"0-10", WordsAtMost(user_df, 10)>>,
       <<"11-50", WordsBetween(user_df, 10, 50)>>,
       <<"51-100", WordsBetween(user_df, 50, 100)>>,
       <<"100-500", WordsBetween(user_df, 100, 500)>>,
       <<"500+", WordsOver(user_df, 500)>> >>

Days(tbl) == {tbl[i].day : i \in DOMAIN tbl}

\* user_df["day"].min()
MinDay(tbl) == CHOOSE d \in Days(tbl) : \A e \in Days(tbl) : d <= e

\* user_df["day"].max()
MaxDay(tbl) == CHOOSE d \in Days(tbl) : \A e \in Days(tbl) : d >= e

DateRange_PastEnd(first, last) == [k \in 1..(last - first + 2) |-> first + k - 1]

\* pd.date_range(user_df["day"].min(), user_df["day"].max())
DateRange(first, last) == [k \in 1..(last - first + 1) |-> first + k - 1]

\* sorted(set(all_days.date) - set(user_df["day"])) (lines 431-432)
InactiveDays(user_df) ==
    LET all_days == DateRange(MinDay(user_df), MaxDay(user_df))
        present == Days(user_df)
    IN  SelectSeq(all_days, LAMBDA d : d \notin present)

\* user_df.groupby("sender_canonical").size()
MessagesPerUser(user_df) ==
    [u \in {user_df[i].sender_canonical : i \in DOMAIN user_df} |->
        Cardinality({i \in DOMAIN user_df : user_df[i].sender_canonical = u})]

\* user_df.groupby("day").size()
MessagesPerDay(user_df) ==
    [d \in Days(user_df) |-> Cardinality({i \in DOMAIN user_df : user_df[i].day = d})]

\* type_counts.get("text", 0)
TextCount(user_df) ==
    Cardinality({i \in DOMAIN user_df : user_df[i].content_type = "text"})

\* The StatsResult compute_stats returns for the tables and one sorted order
StatsResult(df, user_df, df_sorted) ==
    [status |-> "ok",
     df |-> df,
     user_df |-> user_df,
     df_sorted |-> df_sorted,
     messages_per_user |-> MessagesPerUser(user_df),
     messages_per_day |-> MessagesPerDay(user_df),
     starters_per_user |-> StartersPerUser(df_sorted),
     content_types |->
        [text |-> TextCount(user_df), other |-> Len(user_df) - TextCount(user_df)],
     length_distribution |-> LengthDistribution(user_df),
     inactive_days |-> InactiveDays(user_df),
     meta |-> [total_messages |-> Len(df),
               user_messages |-> Len(user_df),
               users |-> {user_df[i].sender_canonical : i \in DOMAIN user_df}]]

SystemExit(message) == [status |-> "SystemExit", message |-> message]

NoResult == [status |-> "none"]

-----------------------------------------------------------------------------
(* compute_stats as a process: load_chat_records (find the files, then one *)
(* step per div.message node, files in order), then the tables and the     *)
(* aggregations.                                                           *)

Contents(dir_name, name) == IF dir_name = "upload" THEN uploadDir[name] ELSE dataDir[name]

CurrentNodes == Contents(source_dir, files[fi])

\* lines 335-337 and 341-343: the files are found, the loop starts
LoadStart ==
    /\ pc = "start"
    /\ \E upload_files \in find_exports(uploadDir), data_files \in find_exports(dataDir) :
          /\ (upload_files # <<>> \/ data_files # <<>>)
          /\ files' = (IF upload_files # <<>> THEN upload_files ELSE data_files)
          /\ source_dir' = (IF upload_files # <<>> THEN "upload" ELSE "data")
    /\ fi' = 1
    /\ ni' = 1
    /\ records' = <<>>
    /\ last_sender' = None
    /\ last_sender_canonical' = None
    /\ pc' = "parse"
    /\ UNCHANGED <<uploadDir, dataDir, trail, result, canonVars, parseVars, apiVars>>

\* lines 338-339
LoadNoExports ==
    /\ pc = "start"
    /\ find_exports(uploadDir) = {<<>>}
    /\ find_exports(dataDir) = {<<>>}
    /\ result' = SystemExit("No Telegram exports found")
    /\ pc' = "failed"
    /\ UNCHANGED <<uploadDir, dataDir, files, source_dir, fi, ni, records, last_sender,
                   last_sender_canonical, trail, canonVars, parseVars, apiVars>>

\* lines 349-354: one iteration of the inner loop
ParseNode ==
    /\ pc = "parse"
    /\ ni <= Len(CurrentNodes)
    /\ LET msg == CurrentNodes[ni]
           ret == parse_message(msg, last_sender, last_sender_canonical)
       IN  /\ records' = (IF ret[1] # <<>> THEN Append(records, ret[1][1]) ELSE records)
           /\ last_sender' = ret[2]
           /\ last_sender_canonical' = ret[3]
           /\ trail' = Append(trail,
                  [msg |-> msg, file |-> fi, parsed |-> ret[1],
                   before |-> <<last_sender, last_sender_canonical>>,
                   after |-> <<ret[2], ret[3]>>])
    /\ ni' = ni + 1
    /\ UNCHANGED <<uploadDir, dataDir, pc, files, source_dir, fi, result,
                   canonVars, parseVars, apiVars>>

\* lines 345-347: the next file is opened
NextFile ==
    /\ pc = "parse"
    /\ ni > Len(CurrentNodes)
    /\ fi < Len(files)
    /\ fi' = fi + 1
    /\ ni' = 1
    /\ UNCHANGED <<uploadDir, dataDir, pc, files, source_dir, records, last_sender,
                   last_sender_canonical, trail, result, canonVars, parseVars, apiVars>>

\* line 359
LoadDone ==
    /\ pc = "parse"
    /\ ni > Len(CurrentNodes)
    /\ fi = Len(files)
    /\ records # <<>>
    /\ pc' = "loaded"
    /\ UNCHANGED <<uploadDir, dataDir, files, source_dir, fi, ni, records, last_sender,
                   last_sender_canonical, trail, result, canonVars, parseVars, apiVars>>

\* lines 356-357
LoadNoRecords ==
    /\ pc = "parse"
    /\ ni > Len(CurrentNodes)
    /\ fi = Len(files)
    /\ records = <<>>
    /\ result' = SystemExit("Parsed 0 messages. Check the export format.")
    /\ pc' = "failed"
    /\ UNCHANGED <<uploadDir, dataDir, files, source_dir, fi, ni, records, last_sender,
                   last_sender_canonical, trail, canonVars, parseVars, apiVars>>

\* lines 364-382 when user_df is empty
ComputeNoUsers ==
    /\ pc = "loaded"
    /\ UserTable(BuildTable(records)) = <<>>
    /\ result' = SystemExit("No user messages found in the export.")
    /\ pc' = "failed"
    /\ UNCHANGED <<uploadDir, dataDir, files, source_dir, fi, ni, records, last_sender,
                   last_sender_canonical, trail, canonVars, parseVars, apiVars>>

\* lines 364-456
ComputeStats ==
    /\ pc = "loaded"
    /\ LET df == BuildTable(records)
           user_df == UserTable(df)
       IN  /\ user_df # <<>>
           /\ \E df_sorted \in SortValuesByDate(user_df) :
                 result' = StatsResult(df, user_df, df_sorted)
    /\ pc' = "done"
    /\ UNCHANGED <<uploadDir, dataDir, files, source_dir, fi, ni, records, last_sender,
                   last_sender_canonical, trail, canonVars, parseVars, apiVars>>

Next ==
    \/ LoadStart
    \/ LoadNoExports
    \/ ParseNode
    \/ NextFile
    \/ LoadDone
    \/ LoadNoRecords
    \/ ComputeNoUsers
    \/ ComputeStats

-----------------------------------------------------------------------------
(* The export directories a run starts from.                               *)

MaxFiles == 2

MaxNodes == 3

SeqsUpTo(S, n) == UNION {[1..k -> S] : k \in 0..n}

RECURSIVE SetToSeq(_)
SetToSeq(S) ==
    IF S = {} THEN <<>>
    ELSE LET x == CHOOSE y \in S : TRUE IN <<x>> \o SetToSeq(S \ {x})

\* The ways to cut a stream of n nodes into the contents of k files: the
\* index of each file's last node
Cuts(k, n) ==
    {c \in [1..k -> 0..n] :
        /\ \A i, j \in 1..k : i < j => c[i] <= c[j]
        /\ IF k = 0 THEN n = 0 ELSE c[k] = n}

Slice(stream, cuts, i) == SubSeq(stream, (IF i = 1 THEN 0 ELSE cuts[i - 1]) + 1, cuts[i])

CanonIdle ==
    /\ cpc = "idle"
    /\ cname = None
    /\ cout1 = None
    /\ cout2 = None

LoadIdle ==
    /\ uploadDir = <<>>
    /\ dataDir = <<>>
    /\ pc = "idle"
    /\ files = <<>>
    /\ source_dir = "upload"
    /\ fi = 0
    /\ ni = 0
    /\ records = <<>>
    /\ last_sender = None
    /\ last_sender_canonical = None
    /\ trail = <<>>
    /\ result = NoResult

ParseIdle ==
    /\ ppc = "idle"
    /\ pmsg = <<>>
    /\ plast = <<None, None>>
    /\ pret = <<>>

NoRequest == [kind |-> "none"]

NoResponse == [status |-> 0]

ApiIdle ==
    /\ apc = "off"
    /\ request = NoRequest
    /\ response = NoResponse
    /\ saved_files = <<>>
    /\ statsJson = <<>>
    /\ statsSource = <<>>
    /\ uploads = 0

\* compute_stats is called on a pair of directories with at most MaxFiles
\* files, named from `upload_names` and `data_names`, holding at most MaxNodes
\* nodes of `universe`.
PipelineInit(upload_names, data_names, universe) ==
    /\ \E up \in SUBSET upload_names, da \in SUBSET data_names :
          /\ Cardinality(up) + Cardinality(da) <= MaxFiles
          /\ \E stream \in SeqsUpTo(universe, MaxNodes) :
                \E cuts \in Cuts(Cardinality(up) + Cardinality(da), Len(stream)) :
                    LET ups == SetToSeq(up)
                        das == SetToSeq(da)
                    IN  /\ uploadDir = [n \in up |-> Slice(stream, cuts, IndexOf(ups, n))]
                        /\ dataDir = [n \in da |->
                                Slice(stream, cuts, Len(ups) + IndexOf(das, n))]
    /\ pc = "start"
    /\ files = <<>>
    /\ source_dir = "upload"
    /\ fi = 0
    /\ ni = 0
    /\ records = <<>>
    /\ last_sender = None
    /\ last_sender_canonical = None
    /\ trail = <<>>
    /\ result = NoResult
    /\ CanonIdle
    /\ ParseIdle
    /\ ApiIdle

-----------------------------------------------------------------------------
(* Nodes and file names the runs are made of.                              *)

Node(service, title, from_name, text, node_text, media_wrap) ==
    [service |-> service, title |-> title, from_name |-> from_name,
     text |-> text, node_text |-> node_text, media_wrap |-> media_wrap]

When(day, time) == <<day, " ", time>>

PhotoWrap == << << <<"media", "clearfix", "pull_left", "media_photo">> >> >>

\* A message of `from_name` (None: no div.from_name) at `title`, `text` words
UserNode(title, from_name, text) == Node(FALSE, title, from_name, text, text + 2, <<>>)

\* A service node: no div.text, `node_text` words in all
ServiceNode(title, from_name, node_text) == Node(TRUE, title, from_name, 0, node_text, <<>>)

Html == <<".","h","t","m","l">>

MessagesHtml == MessagesPrefix \o Html
Messages2Html == MessagesPrefix \o <<"2">> \o Html
Messages10Html == MessagesPrefix \o <<"1","0">> \o Html
MessagesOldHtml == MessagesPrefix \o <<"_","o","l","d">> \o Html
ChatHtml == <<"c","h","a","t">> \o Html
NotesTxt == <<"n","o","t","e","s",".","t","x","t">>

\* Sender attribution and file order
LoadNames == {MessagesHtml, Messages2Html, Messages10Html, MessagesOldHtml, ChatHtml, NotesTxt}

LoadNodes ==
    {UserNode(When("D1", "09:00"), f, 1) : f \in {DiasK, Maksat, <<>>, None}}
    \cup {ServiceNode(When("D1", "09:00"), f, 3) : f \in {Maksat, None}}
    \cup {UserNode(None, Maksat, 1)}

LoadInit == PipelineInit(LoadNames, LoadNames, LoadNodes)

SpecLoad == LoadInit /\ [][Next]_vars

\* Dates, days and participants
StatsNames == {MessagesHtml, Messages2Html}

StatsDataNames == {}

StatsNodes ==
    {UserNode(When("D1", "09:00"), DiasK, 1),
     UserNode(When("D1", "09:00"), Maksat, 1),
     UserNode(When("D1", "09:30"), Maksat, 1),
     UserNode(When("D1", "10:00"), DiasK, 1),
     UserNode(When("D1", "15:00"), DiasK, 1),
     UserNode(When("D1", "15:01"), Maksat, 1),
     UserNode(When("D1", "20:00"), Maksat, 1),
     UserNode(When("D2", "00:30"), DiasK, 1),
     UserNode(When("D4", "09:00"), Maksat, 1),
     ServiceNode(When("D3", "09:00"), DiasK, 3),
     UserNode(<<"x">>, DiasK, 1),
     UserNode(None, DiasK, 1)}

StatsInit == PipelineInit(StatsNames, StatsDataNames, StatsNodes)

SpecStats == StatsInit /\ [][Next]_vars

\* Message lengths
LengthNodes ==
    {UserNode(When("D1", "09:00"), DiasK, 0),
     UserNode(When("D1", "09:30"), DiasK, 10),
     UserNode(When("D1", "10:00"), DiasK, 11),
     UserNode(When("D1", "15:00"), DiasK, 50),
     UserNode(When("D1", "20:00"), DiasK, 51),
     UserNode(When("D2", "09:00"), DiasK, 100),
     UserNode(When("D2", "09:30"), DiasK, 101),
     UserNode(When("D2", "10:00"), DiasK, 500),
     UserNode(When("D2", "15:00"), DiasK, 501),
     ServiceNode(When("D1", "09:00"), DiasK, 600),
     UserNode(None, DiasK, 1)}

LengthInit == PipelineInit(StatsNames, StatsDataNames, LengthNodes)

SpecLength == LengthInit /\ [][Next]_vars

-----------------------------------------------------------------------------
(* parse_message applied to one node and one continuation pair.            *)

ParseTitles ==
    {None, <<>>, <<" ">>, When("D1", "09:00"), <<" ", "D1", " ", "09:00", " ">>, <<"x">>}

ParseWraps ==
    {<<>>,
     << <<>> >>,
     << << <<"clearfix">> >> >>,
     PhotoWrap,
     << << <<"clearfix">>, <<"media_video", "media">> >> >>,
     << << <<"media", "media_sticker">> >> >>,
     << << <<"x_media_y">> >> >>,
     << << <<"media_wrap", "media_poll">> >> >>,
     << << <<"x_media_y", "media_wrap">>, <<"media_photo">> >> >>}

ParseNodes ==
    {Node(s, t, f, w, w + e, m) :
        s \in BOOLEAN, t \in ParseTitles, f \in {None, <<>>, DiasK},
        w \in {0, 2}, e \in {0, 1}, m \in ParseWraps}

ParseContinuations == {<<None, None>>, <<DiasK, Dias>>, <<Unknown, None>>, <<Unknown, Dias>>}

ParseInit ==
    /\ ppc = "call"
    /\ pmsg \in ParseNodes
    /\ plast \in ParseContinuations
    /\ pret = <<>>
    /\ CanonIdle
    /\ LoadIdle
    /\ ApiIdle

ParseMessageCall ==
    /\ ppc = "call"
    /\ pret' = parse_message(pmsg, plast[1], plast[2])
    /\ ppc' = "returned"
    /\ UNCHANGED <<pmsg, plast, canonVars, loadVars, apiVars>>

ParseNext == ParseMessageCall

SpecParse == ParseInit /\ [][ParseNext]_vars

-----------------------------------------------------------------------------
(* canonical_sender applied to a display name, and again to its result.    *)

MaxNameLen == 3

NameAlphabet == {"a", "A", "b", "'", " ", "1", "U0250"}

RECURSIVE StringsUpTo(_, _)
StringsUpTo(alphabet, n) ==
    IF n = 0 THEN {<<>>}
    ELSE LET shorter == StringsUpTo(alphabet, n - 1)
         IN  shorter \cup {Append(s, c) : s \in shorter, c \in alphabet}

KnownNames ==
    {Maksat, MaksatB, Maxat, DiasK, Dias, Unknown,
     <<"d","i","a","s">>, <<"D","I","A","S">>, <<"1","d","i","a","s","1","x">>,
     <<"a","s","a","n","a","l","i">>, <<"A","r","s","e","n","i","y"," ","P">>,
     <<"M","A","X","A","T">>, <<"o","'","n","e","i","l">>}

Names == StringsUpTo(NameAlphabet, MaxNameLen) \cup KnownNames \cup {None}

CanonInit ==
    /\ cpc = "call"
    /\ cname \in Names
    /\ cout1 = None
    /\ cout2 = None
    /\ ParseIdle
    /\ LoadIdle
    /\ ApiIdle

CanonicalizeName ==
    /\ cpc = "call"
    /\ cout1' = canonical_sender(cname)
    /\ cpc' = "once"
    /\ UNCHANGED <<cname, cout2, parseVars, loadVars, apiVars>>

CanonicalizeAgain ==
    /\ cpc = "once"
    /\ cout1 # None
    /\ cout2' = canonical_sender(cout1)
    /\ cpc' = "twice"
    /\ UNCHANGED <<cname, cout1, parseVars, loadVars, apiVars>>

CanonNext == CanonicalizeName \/ CanonicalizeAgain

SpecCanon == CanonInit /\ [][CanonNext]_vars

-----------------------------------------------------------------------------
(* stats_api.py: the upload endpoint, the cached STATS_JSON and the stats  *)
(* read endpoints.  Requests are handled one at a time.  A handler that    *)
(* calls compute_stats starts the process above on the directories as they *)
(* are and resumes when it has returned or raised.  An uploaded file is    *)
(* its file name and the div.message nodes of its content.                 *)

\* Path(filename).name: what follows the last "/"
PathName(filename) ==
    LET slashes == {i \in DOMAIN filename : filename[i] = "/"}
    IN  IF slashes = {} THEN filename
        ELSE SubSeq(filename, (CHOOSE i \in slashes : \A j \in slashes : j <= i) + 1,
                    Len(filename))

\* Path.suffix: what Path.stem leaves out
Suffix(name) == SubSeq(name, Len(Stem(name)) + 1, Len(name))

\* str.lower
Lower(s) == [i \in DOMAIN s |-> LowerChar(s[i])]

\* Path(file.filename).suffix.lower() (lines 70 and 91)
Extension(filename) == Lower(Suffix(PathName(filename)))

\* {".html", ".htm"} (line 71)
AllowedExtensions == {Html, DotHtm}

\* file.filename of each file of the request
Filenames(fs) == [i \in DOMAIN fs |-> fs[i].filename]

InvalidFiles_FirstOnly(fs) ==
    {i \in DOMAIN fs \cap {1} : Extension(fs[i].filename) \notin AllowedExtensions}

\* invalid (lines 68-72): the files of the request that are refused
InvalidFiles(fs) ==
    {i \in DOMAIN fs : Extension(fs[i].filename) \notin AllowedExtensions}

\* lines 83-87: every entry of UPLOAD_DIR that matches "*.htm*" is unlinked
ClearExports(dir) == [n \in DOMAIN dir \ GlobMarkup(dir) |-> dir[n]]

\* destination (lines 91-98) of the file at index idx (from 0) of the request
Destination(dir, filename, idx) ==
    LET extension == Extension(filename)
        name == PathName(filename)
        sanitized ==
            IF name # <<>> THEN name
            ELSE MessagesPrefix \o (IF idx = 0 THEN <<>> ELSE <<Digits[idx + 2]>>)
                 \o extension
    IN  IF sanitized \in DOMAIN dir
        THEN Stem(sanitized) \o <<"_", Digits[idx + 2]>> \o Suffix(sanitized)
        ELSE sanitized

\* lines 89-103: the files are written one after the other; the directory
\* and saved_files after the loop
RECURSIVE SaveFiles(_, _, _, _)
SaveFiles(dir, fs, idx, saved) ==
    IF idx >= Len(fs) THEN <<dir, saved>>
    ELSE LET destination == Destination(dir, fs[idx + 1].filename, idx)
         IN  SaveFiles((destination :> fs[idx + 1].content) @@ dir, fs, idx + 1,
                       Append(saved, destination))

\* StatsResult.jsonable (stats.py lines 148-200): each series becomes the
\* collection of its {key, value} entries; the tables are not part of it
Jsonable(stats) ==
    [meta |-> stats.meta,
     messages_per_user |->
        {[user |-> u, value |-> stats.messages_per_user[u]] :
            u \in DOMAIN stats.messages_per_user},
     messages_per_day |->
        {[day |-> d, value |-> stats.messages_per_day[d]] :
            d \in DOMAIN stats.messages_per_day},
     conversation_starters |->
        {[user |-> u, count |-> stats.starters_per_user[u]] :
            u \in DOMAIN stats.starters_per_user},
     inactive_days |-> stats.inactive_days,
     content_types |-> stats.content_types,
     length_distribution |-> stats.length_distribution]

\* _build_summary (lines 42-60): the peak is the first day, in day order,
\* whose count is larger than every count before it
_build_summary(stats) ==
    LET entries == stats.messages_per_day
        counts == {e.value : e \in entries} \cup {0}
        peak_count == CHOOSE c \in counts : \A d \in counts : d <= c
        peak_days == {e.day : e \in {x \in entries : x.value = peak_count}}
    IN  [totalMessages |-> stats.meta.user_messages,
         totalUsers |-> Cardinality(stats.meta.users),
         activeDays |-> Cardinality({e \in entries : e.value > 0}),
         peakActivityDate |->
            IF peak_count = 0 THEN <<>>
            ELSE <<CHOOSE d \in peak_days : \A e \in peak_days : d <= e>>,
         peakMessageCount |-> peak_count]

\* get_activity (lines 122-142): the timeline
get_activity(stats) ==
    [timeline |-> {[date |-> e.day, messages |-> e.value] : e \in stats.messages_per_day}]

\* sum(int(entry.get("value", 0)) for entry in messages)
RECURSIVE SumValues(_)
SumValues(entries) ==
    IF entries = {} THEN 0
    ELSE LET e == CHOOSE x \in entries : TRUE IN e.value + SumValues(entries \ {e})

\* get_user_stats (lines 145-170); contribution in hundredths of a percent
get_user_stats(stats) ==
    LET messages == stats.messages_per_user
        total_messages == IF SumValues(messages) = 0 THEN 1 ELSE SumValues(messages)
    IN  {[name |-> e.user, messages |-> e.value,
          contribution |->
             (2 * 10000 * e.value + total_messages) \div (2 * total_messages)] :
            e \in messages}

\* get_content_stats (lines 173-182)
get_content_stats(stats) ==
    [types |-> stats.content_types,
     lengthDist |-> stats.length_distribution,
     inactiveDays |-> stats.inactive_days]

Endpoints == {"summary", "activity", "users", "content"}

\* What the read endpoint returns for the statistics _ensure_stats gave it
View(endpoint, stats) ==
    CASE endpoint = "summary" -> _build_summary(stats)
      [] endpoint = "activity" -> get_activity(stats)
      [] endpoint = "users" -> get_user_stats(stats)
      [] endpoint = "content" -> get_content_stats(stats)

HTTPException(status_code, detail) == [status |-> status_code, body |-> detail]

Ok(body) == [status |-> 200, body |-> body]

MaxUploads == 2

\* compute_stats is entered: its locals as at the start of the call
EnterComputeStats ==
    /\ pc' = "start"
    /\ files' = <<>>
    /\ source_dir' = "upload"
    /\ fi' = 0
    /\ ni' = 0
    /\ records' = <<>>
    /\ last_sender' = None
    /\ last_sender_canonical' = None
    /\ trail' = <<>>
    /\ result' = NoResult

\* compute_stats has returned or raised: its locals are gone
LeaveComputeStats ==
    /\ pc' = "idle"
    /\ files' = <<>>
    /\ source_dir' = "upload"
    /\ fi' = 0
    /\ ni' = 0
    /\ records' = <<>>
    /\ last_sender' = None
    /\ last_sender_canonical' = None
    /\ trail' = <<>>
    /\ result' = NoResult

\* upload_chat_export, lines 65-78: no file, or a file with another extension
UploadRejected(fs) ==
    /\ apc = "idle"
    /\ fs = <<>> \/ InvalidFiles(fs) # {}
    /\ request' = [kind |-> "upload", filenames |-> Filenames(fs)]
    /\ response' =
          (IF fs = <<>> THEN HTTPException(400, "No files uploaded.")
           ELSE HTTPException(400, "Only Telegram HTML exports (.html) are supported."))
    /\ saved_files' = <<>>
    /\ UNCHANGED <<apc, uploads, statsJson, statsSource, canonVars, parseVars, loadVars>>

\* upload_chat_export, lines 80-105: the old exports are deleted, the files
\* saved and _compute_and_cache called
UploadSave(fs) ==
    /\ apc = "idle"
    /\ uploads < MaxUploads
    /\ fs # <<>>
    /\ InvalidFiles(fs) = {}
    /\ LET saved == SaveFiles(ClearExports(uploadDir), fs, 0, <<>>)
       IN  /\ uploadDir' = saved[1]
           /\ saved_files' = saved[2]
    /\ request' = [kind |-> "upload", filenames |-> Filenames(fs)]
    /\ response' = NoResponse
    /\ uploads' = uploads + 1
    /\ apc' = "upload"
    /\ EnterComputeStats
    /\ UNCHANGED <<dataDir, statsJson, statsSource, canonVars, parseVars>>

\* _ensure_stats, lines 33-35: STATS_JSON exists and is returned
ReadCached(endpoint) ==
    /\ apc = "idle"
    /\ statsJson # <<>>
    /\ request' = [kind |-> "read", endpoint |-> endpoint]
    /\ response' = Ok(View(endpoint, statsJson[1]))
    /\ saved_files' = <<>>
    /\ UNCHANGED <<apc, uploads, statsJson, statsSource, canonVars, parseVars, loadVars>>

\* _ensure_stats, lines 33 and 39: no STATS_JSON, _compute_and_cache is called
ReadRecompute(endpoint) ==
    /\ apc = "idle"
    /\ statsJson = <<>>
    /\ request' = [kind |-> "read", endpoint |-> endpoint]
    /\ response' = NoResponse
    /\ saved_files' = <<>>
    /\ apc' = "read"
    /\ EnterComputeStats
    /\ UNCHANGED <<uploads, uploadDir, dataDir, statsJson, statsSource, canonVars, parseVars>>

\* _compute_and_cache, lines 27-28: compute_stats raised SystemExit
ComputeAndCacheFailed ==
    /\ apc \in {"upload", "read"}
    /\ pc = "failed"
    /\ response' = HTTPException(400, result.message)
    /\ apc' = "idle"
    /\ LeaveComputeStats
    /\ UNCHANGED <<uploadDir, dataDir, request, saved_files, statsJson, statsSource, uploads,
                   canonVars, parseVars>>

\* _compute_and_cache, line 29, _persist_stats, and the handler's return
\* (lines 106-113 for the upload, the view for a read)
ComputeAndCachePersist ==
    /\ apc \in {"upload", "read"}
    /\ pc = "done"
    /\ LET payload == Jsonable(result)
       IN  /\ statsJson' = <<payload>>
           /\ response' =
                 (IF apc = "upload"
                  THEN Ok([status |-> "ok",
                           filenames |-> saved_files,
                           fileCount |-> Len(saved_files),
                           summary |-> _build_summary(payload)])
                  ELSE Ok(View(request.endpoint, payload)))
    /\ statsSource' = uploadDir
    /\ apc' = "idle"
    /\ LeaveComputeStats
    /\ UNCHANGED <<uploadDir, dataDir, request, saved_files, uploads, canonVars, parseVars>>

\* The files a request can carry
UploadFile(filename, content) == [filename |-> filename, content |-> content]

ChatHtm == <<"c","h","a","t">> \o DotHtm

EmptyExport == <<>>

ServiceExport == <<ServiceNode(When("D1", "09:00"), DiasK, 3)>>

DiasExport == <<UserNode(When("D1", "09:00"), DiasK, 1)>>

ApiFiles ==
    {UploadFile(ChatHtml, EmptyExport), UploadFile(ChatHtml, ServiceExport),
     UploadFile(ChatHtm, DiasExport), UploadFile(NotesTxt, DiasExport)}

ApiRequests == SeqsUpTo(ApiFiles, MaxFiles)

\* The server starts with no upload, no export in DATA_DIR and no STATS_JSON
ApiInit ==
    /\ LoadIdle
    /\ CanonIdle
    /\ ParseIdle
    /\ apc = "idle"
    /\ request = NoRequest
    /\ response = NoResponse
    /\ saved_files = <<>>
    /\ statsJson = <<>>
    /\ statsSource = <<>>
    /\ uploads = 0

ApiNext ==
    \/ Next
    \/ \E fs \in ApiRequests : UploadRejected(fs)
    \/ \E fs \in ApiRequests : UploadSave(fs)
    \/ \E endpoint \in Endpoints : ReadCached(endpoint)
    \/ \E endpoint \in Endpoints : ReadRecompute(endpoint)
    \/ ComputeAndCacheFailed
    \/ ComputeAndCachePersist

SpecApi == ApiInit /\ [][ApiNext]_vars

-----------------------------------------------------------------------------
(* Sender attribution (load_chat_records, parse_message).                  *)

\* The records parse_message produced, one per entry of the trail that has one
Produced(k) == trail[k].parsed # <<>>

\* The most recent entry before k that produced a non-service record
PrecedingUserEntries(k) ==
    {j \in 1..(k - 1) : Produced(j) /\ ~trail[j].msg.service}

LastOf(S) == CHOOSE j \in S : \A i \in S : i <= j

\* C1: a node with a timestamp and no sender element gets the raw sender and
\* the canonical identity of the most recent preceding non-service record,
\* and a service node returns the continuation pair as it received it.
C1_InheritsPrecedingSender ==
    \A k \in DOMAIN trail :
        /\ (Produced(k) /\ trail[k].msg.service) => trail[k].after = trail[k].before
        /\ (Produced(k) /\ trail[k].msg.from_name = None /\ PrecedingUserEntries(k) # {}) =>
              LET prev == trail[LastOf(PrecedingUserEntries(k))].parsed[1]
                  rec == trail[k].parsed[1]
              IN  /\ rec.sender = prev.sender
                  /\ rec.sender_canonical = prev.sender_canonical

\* The claim's example: "Dias K.", any service nodes, then a node with no
\* sender element, which is attributed to "Dias"
C1_DiasExampleReached ==
    /\ Len(trail) = 3
    /\ trail[1].msg.from_name = DiasK /\ ~trail[1].msg.service /\ Produced(1)
    /\ trail[2].msg.service /\ Produced(2)
    /\ trail[3].msg.from_name = None /\ ~trail[3].msg.service /\ Produced(3)
    /\ trail[3].parsed[1].sender = DiasK
    /\ trail[3].parsed[1].sender_canonical = Dias

-----------------------------------------------------------------------------
(* File selection and order (find_exports, load_chat_records).             *)

\* "messages", an optional numeric suffix, then the markup extension
IsPrimaryName(name) ==
    /\ StartsWith(name, MessagesPrefix)
    /\ \E k \in Len(MessagesPrefix)..Len(name) :
          /\ \A i \in (Len(MessagesPrefix) + 1)..k : IsDigit(name[i])
          /\ SubSeq(name, k + 1, Len(name)) \in {Html, DotHtm}

IsMarkupName(name) ==
    \E k \in 0..Len(name) : SubSeq(name, k + 1, Len(name)) \in {Html, DotHtm}

SourceDir == IF source_dir = "upload" THEN uploadDir ELSE dataDir

RECURSIVE NodesOf(_, _)
NodesOf(dir, names) ==
    IF names = <<>> THEN <<>>
    ELSE dir[Head(names)] \o NodesOf(dir, Tail(names))

\* C3: the files matching the primary pattern are used alone when there are
\* any, by ascending numeric suffix with the unsuffixed file first, all markup
\* files otherwise; nodes are processed in document order within a file and
\* file order across files, and the continuation state a node receives is the
\* state the node before it left, also across a file boundary.
C3_FileOrderAndThreading ==
    pc \in {"parse", "loaded", "done", "failed"} /\ files # <<>> =>
        LET primary == {n \in DOMAIN SourceDir : IsPrimaryName(n)}
            markup == {n \in DOMAIN SourceDir : IsMarkupName(n)}
        IN  /\ Range(files) = (IF primary # {} THEN primary ELSE markup)
            /\ primary # {} =>
                  \A i, j \in DOMAIN files :
                      i < j => message_sort_key(files[i]) < message_sort_key(files[j])
            /\ MessagesHtml \in primary => files[1] = MessagesHtml
            /\ \A k \in DOMAIN trail :
                  /\ trail[k].msg = NodesOf(SourceDir, files)[k]
                  /\ k > 1 => trail[k].before = trail[k - 1].after
            /\ pc \in {"loaded", "done"} =>
                  Len(trail) = Len(NodesOf(SourceDir, files))

-----------------------------------------------------------------------------
(* parse_message on one node.                                              *)

HasTimestampTitle(msg) ==
    msg.title # None /\ \E i \in DOMAIN msg.title : msg.title[i] # " "

\* C2: parse_message returns no record exactly for a node with no timestamp
\* title (none, or one that is empty or white space), then with the
\* continuation pair it was given; every other node yields one record.
C2_RejectsIffNoTimestamp ==
    ppc = "returned" =>
        /\ (pret[1] = <<>>) <=> ~HasTimestampTitle(pmsg)
        /\ pret[1] = <<>> => <<pret[2], pret[3]>> = plast
        /\ HasTimestampTitle(pmsg) => Len(pret[1]) = 1

C2_RejectedWithSenderReached ==
    /\ ppc = "returned"
    /\ pret[1] = <<>>
    /\ pmsg.title = <<" ">>
    /\ pmsg.from_name = DiasK
    /\ ~pmsg.service
    /\ plast = <<Unknown, None>>
    /\ <<pret[2], pret[3]>> = plast

\* C4: the content type is "service" for a service node, else the detected
\* media type when there is one, else "text" when the text is not empty,
\* else "unknown".
C4_ContentTypeOrder ==
    ppc = "returned" /\ pret[1] # <<>> =>
        LET ct == pret[1][1].content_type
            media == detect_media_type(pmsg.media_wrap)
        IN  /\ pmsg.service => ct = "service"
            /\ ~pmsg.service /\ media # NoneStr => ct = media
            /\ ~pmsg.service /\ media = NoneStr /\ pmsg.text > 0 => ct = "text"
            /\ ~pmsg.service /\ media = NoneStr /\ pmsg.text = 0 => ct = "unknown"
            /\ ~pmsg.service /\ pmsg.media_wrap = PhotoWrap => ct = "photo"

C4_MediaWithTextReached ==
    /\ ppc = "returned"
    /\ pret[1] # <<>>
    /\ ~pmsg.service
    /\ pmsg.text > 0
    /\ pmsg.media_wrap = PhotoWrap
    /\ pret[1][1].content_type = "photo"

-----------------------------------------------------------------------------
(* canonical_sender.                                                       *)

\* C7: canonical_sender applied to its own result gives that result; the
\* result is decided by the first token of the cleaned name, whatever its
\* case; "Maksat", "maksat B." and "Maxat" all give "Maxat".
C7_IdempotentAliasStable ==
    /\ cpc = "twice" => cout2 = cout1
    /\ cpc \in {"once", "twice"} /\ Truthy(cname) /\ Split(Clean(cname)) # <<>> =>
          /\ cout1 = canonical_sender(Split(Clean(cname))[1])
          /\ cout1 = canonical_sender(Casefold(Split(Clean(cname))[1]))
    /\ cpc \in {"once", "twice"} /\ cname \in {Maksat, MaksatB, Maxat} => cout1 = Maxat

-----------------------------------------------------------------------------
(* compute_stats: the participant subset and the failure cases.            *)

Finished == pc \in {"done", "failed"}

\* The nodes load_chat_records read that are participant messages with a
\* date pandas can parse
UsableEntries ==
    {k \in DOMAIN trail :
        /\ HasTimestampTitle(trail[k].msg)
        /\ ~trail[k].msg.service
        /\ to_datetime(trail[k].msg.title) # NaT}

DatedEntries ==
    {k \in DOMAIN trail :
        HasTimestampTitle(trail[k].msg) /\ to_datetime(trail[k].msg.title) # NaT}

\* C5: in a result, user_df holds no service row and no row with an empty
\* canonical identity; total_messages counts every row of df, service rows
\* included, and user_messages the rows of user_df.
C5_ParticipantSubset ==
    result.status = "ok" =>
        /\ \A i \in DOMAIN result.user_df :
              /\ result.user_df[i].content_type # "service"
              /\ result.user_df[i].sender_canonical # <<>>
              /\ result.user_df[i].sender_canonical # None
        /\ result.meta.total_messages = Cardinality(DatedEntries)
        /\ result.meta.total_messages = Len(result.df)
        /\ result.meta.user_messages = Cardinality(UsableEntries)
        /\ result.meta.user_messages = Len(result.user_df)

C5_ServiceRowCountedReached ==
    /\ result.status = "ok"
    /\ \E i \in DOMAIN result.df : result.df[i].content_type = "service"
    /\ result.meta.total_messages = 3
    /\ result.meta.user_messages = 1

\* C6: compute_stats returns a result exactly when some node is a participant
\* message with a parseable date, and raises SystemExit otherwise (no export
\* file, no record, no participant row left); a result never has an empty
\* participant subset.
C6_NeverEmptyResult ==
    /\ result.status = "ok" => Len(result.user_df) > 0
    /\ Finished =>
          /\ result.status \in {"ok", "SystemExit"}
          /\ (result.status = "ok") <=> (UsableEntries # {})
          /\ (pc = "done") <=> (result.status = "ok")
    /\ Finished /\ files = <<>> => result.status = "SystemExit"
    /\ Finished /\ records = <<>> => result.status = "SystemExit"

C6_BadDateDroppedReached ==
    /\ result.status = "ok"
    /\ \E i \in DOMAIN records : to_datetime(records[i].date) = NaT
    /\ Len(records) = 3
    /\ Len(result.user_df) = 1

-----------------------------------------------------------------------------
(* compute_stats: conversation starters.                                   *)

UserDates == {result.user_df[i].date : i \in DOMAIN result.user_df}

\* The dates of user_df that come more than six hours after the date before
GapsOverSixHours ==
    {d \in UserDates :
        \E p \in UserDates :
            /\ p < d
            /\ \A q \in UserDates : q < d => q <= p
            /\ d - p > 6 * 60}

RECURSIVE SumOver(_, _)
SumOver(f, S) ==
    IF S = {} THEN 0
    ELSE LET x == CHOOSE y \in S : TRUE IN f[x] + SumOver(f, S \ {x})

SameRows(a, b) ==
    /\ Len(a) = Len(b)
    /\ \A r \in Range(a) \cup Range(b) :
          Cardinality({i \in DOMAIN a : a[i] = r}) = Cardinality({i \in DOMAIN b : b[i] = r})

\* C8: with user_df sorted by date, a row is a starter of its canonical
\* identity exactly when it comes strictly more than six hours after the row
\* before it; the first row never is; the starters number the gaps of more
\* than six hours between consecutive dates, whatever the order of the records.
C8_ConversationStarters ==
    result.status = "ok" =>
        LET s == result.df_sorted
            starters == {i \in DOMAIN s : i > 1 /\ s[i].date - s[i - 1].date > 6 * 60}
            per_user == result.starters_per_user
        IN  /\ SameRows(s, result.user_df)
            /\ \A i, j \in DOMAIN s : i < j => s[i].date <= s[j].date
            /\ 1 \notin starters
            /\ \A i \in DOMAIN s : i > 1 /\ s[i].date - s[i - 1].date = 6 * 60 => i \notin starters
            /\ DOMAIN per_user = {s[i].sender_canonical : i \in starters}
            /\ \A u \in DOMAIN per_user :
                  per_user[u] = Cardinality({i \in starters : s[i].sender_canonical = u})
            /\ SumOver(per_user, DOMAIN per_user) = Cardinality(GapsOverSixHours)
            /\ UserDates \subseteq {to_datetime(When("D1", t)) : t \in {"09:00", "09:30", "10:00"}}
                  => per_user = <<>>
            /\ UserDates = {to_datetime(When("D1", t)) : t \in {"09:00", "10:00", "20:00"}}
                  => SumOver(per_user, DOMAIN per_user) = 1

\* Records parsed out of date order: 15:01, then 09:00 the same day and 00:30
\* the next day; the 15:01 row comes 6 h 1 min after its predecessor and the
\* 00:30 row 9 h 29 min after its own
C8_StarterAfterGapReached ==
    /\ result.status = "ok"
    /\ Len(records) = 3
    /\ to_datetime(records[1].date) = to_datetime(When("D1", "15:01"))
    /\ to_datetime(records[2].date) = to_datetime(When("D1", "09:00"))
    /\ to_datetime(records[3].date) = to_datetime(When("D2", "00:30"))
    /\ result.starters_per_user = (Maxat :> 1) @@ (Dias :> 1)

-----------------------------------------------------------------------------
(* compute_stats: length distribution and inactive days.                   *)

InBucket(b, words) ==
    CASE b = 1 -> 0 <= words /\ words <= 10
      [] b = 2 -> 11 <= words /\ words <= 50
      [] b = 3 -> 51 <= words /\ words <= 100
      [] b = 4 -> 101 <= words /\ words <= 500
      [] b = 5 -> 501 <= words

\* C9: the five counts are, in this order, the rows of user_df with 0-10,
\* 11-50, 51-100, 101-500 and more than 500 words; every row is in exactly one
\* bucket and the counts add up to user_messages.
C9_LengthBuckets ==
    result.status = "ok" =>
        LET dist == result.length_distribution
            rows == result.user_df
        IN  /\ Len(dist) = 5
            /\ \A b \in 1..5 :
                  dist[b][2] = Cardinality({i \in DOMAIN rows : InBucket(b, rows[i].word_count)})
            /\ \A i \in DOMAIN rows :
                  Cardinality({b \in 1..5 : InBucket(b, rows[i].word_count)}) = 1
            /\ dist[1][2] + dist[2][2] + dist[3][2] + dist[4][2] + dist[5][2]
                  = result.meta.user_messages

C9_BoundaryRowsReached ==
    /\ result.status = "ok"
    /\ {result.user_df[i].word_count : i \in DOMAIN result.user_df} = {100, 101, 501}
    /\ result.length_distribution[3][2] = 1
    /\ result.length_distribution[4][2] = 1
    /\ result.length_distribution[5][2] = 1

\* C10: inactive_days lists, in ascending order, exactly the days from the
\* first to the last day of user_df that have no row in user_df; with the
\* distinct days of user_df they number the days of that span, and the first
\* and the last day are not among them.
C10_InactiveDays ==
    result.status = "ok" =>
        LET days == {result.user_df[i].day : i \in DOMAIN result.user_df}
            first == CHOOSE d \in days : \A e \in days : d <= e
            last == CHOOSE d \in days : \A e \in days : d >= e
            inactive == result.inactive_days
        IN  /\ Range(inactive) = {d \in first..last : d \notin days}
            /\ \A i, j \in DOMAIN inactive : i < j => inactive[i] < inactive[j]
            /\ Len(inactive) + Cardinality(days) = last - first + 1
            /\ first \notin Range(inactive)
            /\ last \notin Range(inactive)

\* Messages on day 1 and day 4 and a service message on day 3: days 2 and 3
\* are inactive
C10_ServiceDayInactiveReached ==
    /\ result.status = "ok"
    /\ \E i \in DOMAIN result.df : result.df[i].content_type = "service" /\ result.df[i].day = 3
    /\ result.inactive_days = <<2, 3>>

-----------------------------------------------------------------------------
(* The continuation pair load_chat_records threads through the nodes.      *)

\* C12: after every step of load_chat_records the carried canonical identity
\* is canonical_sender of the carried display name, and both are absent
\* before the first sender is seen.
C12_ContinuationSelfConsistent ==
    last_sender_canonical =
        (IF last_sender = None THEN None ELSE canonical_sender(last_sender))

-----------------------------------------------------------------------------
(* The stats API (upload_chat_export, _ensure_stats).                      *)

\* C11: a stats read request that is answered returns the view of the
\* statistics of the export files that are in the upload directory now: the
\* statistics it is derived from were computed from the directory as it is,
\* also after an upload whose files were saved and whose recomputation failed.
C11_ReadReturnsCurrentStatistics ==
    (request.kind = "read" /\ response.status = 200) =>
        /\ response.body = View(request.endpoint, statsJson[1])
        /\ statsSource = uploadDir

\* A file of the request has an extension other than .html or .htm
HasOtherExtension(filenames) ==
    \E i \in DOMAIN filenames : Extension(filenames[i]) \notin AllowedExtensions

\* C13: an upload request with a file of another extension is answered with
\* a client error and changes nothing: the upload directory (nothing deleted,
\* nothing saved) and the cached statistics file stay as they were.
C13_InvalidUploadChangesNothing ==
    [][(apc = "idle" /\ request'.kind = "upload" /\ HasOtherExtension(request'.filenames)) =>
          /\ response'.status = 400
          /\ apc' = "idle"
          /\ uploadDir' = uploadDir
          /\ statsJson' = statsJson]_vars

\* A request with a valid and an invalid file was rejected while an earlier
\* export and its cached statistics were in place
C13_MixedUploadRejectedReached ==
    /\ request.kind = "upload"
    /\ HasOtherExtension(request.filenames)
    /\ \E i \in DOMAIN request.filenames :
          Extension(request.filenames[i]) \in AllowedExtensions
    /\ response.status = 400
    /\ GlobMarkup(uploadDir) # {}
    /\ statsJson # <<>>

====
